---- MODULE Spec2Model ----
(***************************************************************************)
(* A model of pacthash: the contract data model of src/src/contract.rs     *)
(* (Type, Nonce, Contract and their codecs) and the option validation and  *)
(* contract resolution carried out by main() in src/src/main.rs.           *)
(*                                                                         *)
(* Bytes are integers 0..255, byte strings are sequences of bytes, and a   *)
(* Rust &str is a sequence of Unicode code points (as_bytes gives its      *)
(* UTF-8 encoding).  Base58check strings are kept as TLA+ strings, which   *)
(* the decoder of the bitcoin crate reads one character at a time.         *)
(***************************************************************************)
EXTENDS Integers, Sequences, FiniteSets, TLC

(***************************************************************************)
(* Program constants (contract.rs)                                         *)
(***************************************************************************)
CONTRACT_LEN == 40
DATA_LEN == 20
NONCE_LEN == 16

(***************************************************************************)
(* Bounds of the model                                                     *)
(***************************************************************************)
\* Nonces the random source may return: RandomNonce(0) .. RandomNonce(MaxSeed)
MaxSeed == 1
\* Payloads / texts used to build inputs: Payload(0) .. Payload(MaxPayload)
MaxPayload == 1

(***************************************************************************)
(* Result<T, E>                                                            *)
(***************************************************************************)
Ok(v) == [ok |-> TRUE, val |-> v]
Err(e) == [ok |-> FALSE, err |-> e]

None == [some |-> FALSE]
Some(v) == [some |-> TRUE, val |-> v]

(***************************************************************************)
(* &str -> bytes                                                           *)
(***************************************************************************)
\* The UTF-8 encoding of a code point below 0x800
Utf8(c) == IF c < 128 THEN <<c>> ELSE <<192 + (c \div 64), 128 + (c % 64)>>

RECURSIVE as_bytes(_)
\* str::as_bytes: the UTF-8 encoding of the string, the encodings of its
\* characters one after the other
as_bytes(s) ==
    IF Len(s) = 0 THEN <<>>
    ELSE IF Len(s) = 1 THEN Utf8(s[1])
    ELSE LET h == Len(s) \div 2
         IN  as_bytes(SubSeq(s, 1, h)) \o as_bytes(SubSeq(s, h + 1, Len(s)))

(***************************************************************************)
(* rustc_serialize::hex::FromHex for str.  The decoder walks the bytes of  *)
(* the string keeping a u8 buffer and a nibble count.                      *)
(***************************************************************************)
IsHexWhitespace(b) == b \in {32, 13, 10, 9}

HexNibble(b) ==
    IF b >= 65 /\ b <= 70 THEN b - 65 + 10
    ELSE IF b >= 97 /\ b <= 102 THEN b - 97 + 10
    ELSE IF b >= 48 /\ b <= 57 THEN b - 48
    ELSE -1

\* The decoder reads the bytes in order: white space is skipped, any other
\* byte that is no hex digit ends the run with InvalidHexCharacter at its
\* index, each pair of digits gives one byte (high nibble first), and a
\* digit left over at the end gives InvalidHexLength.
from_hex(s) ==
    LET bytes == as_bytes(s)
        bad == { i \in 1 .. Len(bytes) :
                   ~IsHexWhitespace(bytes[i]) /\ HexNibble(bytes[i]) < 0 }
        digits == SelectSeq(bytes, LAMBDA b : ~IsHexWhitespace(b))
    IN  IF bad # {}
        THEN Err([kind |-> "InvalidHexCharacter",
                  idx |-> (CHOOSE i \in bad : \A j \in bad : i <= j) - 1])
        ELSE IF Len(digits) % 2 # 0
        THEN Err([kind |-> "InvalidHexLength"])
        ELSE Ok([i \in 1 .. (Len(digits) \div 2) |->
                   HexNibble(digits[2 * i - 1]) * 16 + HexNibble(digits[2 * i])] \o <<>>)

(***************************************************************************)
(* Type (contract.rs 33-61)                                                *)
(***************************************************************************)
Types == {"Text", "PubkeyHash", "ScriptHash"}

TAG_TEXT == <<84, 69, 88, 84>>   \* b"TEXT"
TAG_P2PH == <<80, 50, 80, 72>>   \* b"P2PH"
TAG_P2SH == <<80, 50, 83, 72>>   \* b"P2SH"

Type_serialize_swapped(ty) ==
    CASE ty = "Text" -> TAG_TEXT
      [] ty = "PubkeyHash" -> TAG_P2SH
      [] ty = "ScriptHash" -> TAG_P2PH

Type_serialize(ty) ==
    CASE ty = "Text" -> TAG_TEXT
      [] ty = "PubkeyHash" -> TAG_P2PH
      [] ty = "ScriptHash" -> TAG_P2SH

Type_deserialize_lax(data) ==
    IF data = TAG_TEXT THEN Ok("Text")
    ELSE IF data = TAG_P2PH THEN Ok("PubkeyHash")
    ELSE Ok("ScriptHash")

Type_deserialize(data) ==
    IF data = TAG_TEXT THEN Ok("Text")
    ELSE IF data = TAG_P2PH THEN Ok("PubkeyHash")
    ELSE IF data = TAG_P2SH THEN Ok("ScriptHash")
    ELSE Err([kind |-> "BadType", bytes |-> data])

(***************************************************************************)
(* Nonce (contract.rs 63-103)                                              *)
(***************************************************************************)
Nonce_serialize(nonce) == nonce

\* Nonce::from(&[u8]), generated by impl_array_newtype!(Nonce, u8, NONCE_LEN)
\* (contract.rs 67): the NONCE_LEN bytes of the slice
Nonce_from_slice(data) == SubSeq(data, 1, NONCE_LEN)

\* The bytes are decoded first and their number compared with NONCE_LEN; the
\* array that is returned has all its NONCE_LEN bytes copied from them.
Nonce_from_hex(data) ==
    LET r == from_hex(data)
    IN  IF ~r.ok THEN Err([kind |-> "Hex", inner |-> r.err])
        ELSE IF Len(r.val) # NONCE_LEN
        THEN Err([kind |-> "BadLength", len |-> Len(r.val)])
        ELSE Ok(SubSeq(r.val, 1, NONCE_LEN))

Nonce_from_contract(contract) == contract.nonce

HEX_DIGITS == <<48, 49, 50, 51, 52, 53, 54, 55, 56, 57, 97, 98, 99, 100, 101, 102>>

\* format!("{:x}", b) without the zero padding
fmt_x_unpadded(b) ==
    IF b < 16 THEN <<HEX_DIGITS[b + 1]>>
    ELSE <<HEX_DIGITS[(b \div 16) + 1], HEX_DIGITS[(b % 16) + 1]>>

\* format!("{:02x}", b)
fmt_02x(b) == <<HEX_DIGITS[(b \div 16) + 1], HEX_DIGITS[(b % 16) + 1]>>

RECURSIVE Nonce_LowerHex(_)
\* impl fmt::LowerHex for Nonce: the string written by "{:x}", each byte in
\* turn as "{:02x}"
Nonce_LowerHex(nonce) ==
    IF nonce = <<>> THEN <<>>
    ELSE fmt_02x(Head(nonce)) \o Nonce_LowerHex(Tail(nonce))

(***************************************************************************)
(* Contract (contract.rs 105-183)                                          *)
(***************************************************************************)
Contract_serialize_data_first(c) ==
    Type_serialize(c.ty) \o c.data \o c.nonce

Contract_serialize(c) ==
    LET ty == Type_serialize(c.ty)
    IN  ty \o c.nonce \o c.data

Contract_from_hex_no_length_check(data) ==
    LET r == from_hex(data)
    IN  IF ~r.ok THEN Err([kind |-> "Hex", inner |-> r.err])
        ELSE IF Len(r.val) < 20
        THEN Err([kind |-> "BadLength", len |-> Len(r.val)])
        ELSE LET ty == Type_deserialize(SubSeq(r.val, 1, 4))
             IN  IF ~ty.ok THEN ty
                 ELSE Ok([ty |-> ty.val,
                          nonce |-> Nonce_from_slice(SubSeq(r.val, 5, 20)),
                          data |-> SubSeq(r.val, 21, Len(r.val))])

Contract_from_hex(data) ==
    LET r == from_hex(data)
    IN  IF ~r.ok THEN Err([kind |-> "Hex", inner |-> r.err])
        ELSE IF Len(r.val) # CONTRACT_LEN
        THEN Err([kind |-> "BadLength", len |-> Len(r.val)])
        ELSE LET ty == Type_deserialize(SubSeq(r.val, 1, 4))
             IN  IF ~ty.ok THEN ty
                 ELSE Ok([ty |-> ty.val,
                          nonce |-> Nonce_from_slice(SubSeq(r.val, 5, 20)),
                          data |-> SubSeq(r.val, 21, Len(r.val))])

(***************************************************************************)
(* bitcoin::util::base58 and bitcoin::util::address (external)             *)
(***************************************************************************)
\* The byte string (a + i * m) % 256, i = lo .. hi
Bytes(a, m, lo, hi) ==
    [j \in 1 .. (hi - lo + 1) |-> (a + (lo + j - 1) * m) % 256] \o <<>>

\* The 20-byte hashes the address strings of the model encode
Payload(k) == Bytes(k * 31, 7, 1, DATA_LEN)

BASE58_CHARS == "123456789ABCDEFGHJKLMNPQRSTUVWXYZabcdefghijkmnopqrstuvwxyz"

\* The digit of a character, -1 where the table holds None
BASE58_DIGITS(c) ==
    LET hits == { i \in 1 .. Len(BASE58_CHARS) : SubSeq(BASE58_CHARS, i, i) = c }
    IN  IF hits = {} THEN -1 ELSE (CHOOSE i \in hits : TRUE) - 1

\* One pass over scratch from its last byte to its first, "X = X * 58 +
\* next_digit" in base 256: the bytes it leaves and the carry out of the
\* first byte.  The low half is passed before the high half takes its carry.
MulAdd58[scratch \in Seq(0 .. 255), carry \in Nat] ==
    IF Len(scratch) = 0 THEN [bytes |-> <<>>, carry |-> carry]
    ELSE IF Len(scratch) = 1
    THEN LET v == carry + scratch[1] * 58
         IN  [bytes |-> <<v % 256>>, carry |-> v \div 256]
    ELSE LET h == Len(scratch) \div 2
             low == MulAdd58[SubSeq(scratch, h + 1, Len(scratch)), carry]
             high == MulAdd58[SubSeq(scratch, 1, h), low.carry]
         IN  [bytes |-> high.bytes \o low.bytes, carry |-> high.carry]

\* scratch after the digits have been taken in, one after the other
Base256[scratch \in Seq(0 .. 255), digits \in Seq(0 .. 57)] ==
    IF Len(digits) = 0 THEN scratch
    ELSE IF Len(digits) = 1 THEN MulAdd58[scratch, digits[1]].bytes
    ELSE LET h == Len(digits) \div 2
         IN  Base256[Base256[scratch, SubSeq(digits, 1, h)],
                     SubSeq(digits, h + 1, Len(digits))]

\* The number of leading zeroes of a sequence
LeadingZeroes(s) ==
    LET zeroes == { i \in 0 .. Len(s) : \A j \in 1 .. i : s[j] = 0 }
    IN  CHOOSE i \in zeroes : \A j \in zeroes : j <= i

\* The digits of the characters of a string
Base58Digits(data) ==
    [i \in 1 .. Len(data) |-> BASE58_DIGITS(SubSeq(data, i, i))] \o <<>>

\* One zero byte for each leading '1', then scratch without its leading
\* zero bytes
Base58Bytes(digits, scratch) ==
    [i \in 1 .. LeadingZeroes(digits) |-> 0]
        \o SubSeq(scratch, LeadingZeroes(scratch) + 1, Len(scratch))

Vec_from_digits(digits) ==
    IF \E i \in 1 .. Len(digits) : digits[i] < 0
    THEN Err([kind |-> "BadByte"])
    ELSE Ok(Base58Bytes(digits,
                        Base256[[i \in 1 .. (1 + (Len(digits) * 11) \div 15) |-> 0] \o <<>>,
                                digits]))

\* impl FromBase58 for Vec<u8>, from_base58: a character that is no base58
\* digit gives BadByte; otherwise the number is built in base 256 in a
\* scratch of 1 + len * 11 / 15 bytes, and the result is one zero byte for
\* each leading '1' followed by scratch without its leading zero bytes.
Vec_from_base58(data) == Vec_from_digits(Base58Digits(data))

\* The base58 strings the model hands to the decoder
Base58Strings ==
    { "1eJbowaiFMK16mer2rrcT1YecZaWtjBAQ", "14Urq7zbNv9o1rzh3ofnVQUwUx3Koep2Vt",
      "32LKXMS2G9fh6GU5y8XT35NUo8rJ9xZAtT", "35AskfV2vpUB72h8AuLNv2qsdUL3PpCeXb",
      "mgAFts2ZXGnZnDFGZbqESNDsWcAHVZMVjM", "2MyZe3iU5Cwn1KaYi3omBQwJXgA1xNJY2oN",
      "LKsFs2FQnubNFuTp2Ar9tU5JrpvrgsivEC", "19TC4PLRJJHmRsSnzy9yWugo8bxwUSdA",
      "1eJbowaiFMK16mer2rrcT1YecZaWtjBAR", "0OIl", "", "1111", "3QJmnh",
      "KwFfpDsaF7yxCELuyrH9gP5XL7TAt5b9HPWC1xCQbmrxvhJgMQHb",
      "cMcfH8sRgBgDMfpBNG6H3haaxLkaYXgqMRef8Nev6tWyBSNr6c3n",
      "KwFfpDsaF7yxCELuyrH9gP5XL7TAt5b9HPWC1xCQbmrxvhJgMQHc",
      "5HpjKrb7dH5kKQQzmbjB87Mxova7mek5bXUTWfndcX6tBoqUwzm" }

\* Their decodings, computed once
Base58Decoded == [data \in Base58Strings |-> Vec_from_base58(data)]

from_base58(data) ==
    IF data \in Base58Strings THEN Base58Decoded[data] ELSE Vec_from_base58(data)

\* The first four bytes of Sha256dHash::from_data(data).  SHA-256 is not
\* computed here: the checksums of the byte strings that the strings of
\* the model carry are tabulated, and no checksum is known for any other
\* byte string.
Sha256dChecksum(data) ==
    CASE data = <<0>> \o Payload(0) -> <<31, 8, 28, 169>>
      [] data = <<0>> \o Payload(1) -> <<103, 130, 33, 151>>
      [] data = <<5>> \o Payload(0) -> <<222, 136, 182, 28>>
      [] data = <<5>> \o Payload(1) -> <<181, 101, 157, 138>>
      [] data = <<111>> \o Payload(0) -> <<174, 158, 211, 168>>
      [] data = <<196>> \o Payload(2) -> <<19, 7, 221, 109>>
      [] data = <<48>> \o Payload(0) -> <<138, 70, 224, 25>>
      [] data = <<0>> \o SubSeq(Payload(0), 1, DATA_LEN - 1) -> <<10, 156, 211, 173>>
      [] data = <<128>> \o Bytes(0, 1, 1, 32) \o <<1>> -> <<44, 251, 113, 174>>
      [] data = <<239>> \o Bytes(0, 1, 1, 32) \o <<1>> -> <<26, 155, 72, 197>>
      [] data = <<128>> \o Bytes(0, 1, 1, 32) -> <<4, 228, 13, 166>>
      [] data = <<>> -> <<93, 246, 224, 226>>
      [] OTHER -> <<>>

\* The decoded bytes without their last four, which must be the checksum
\* of the others
VerifyChecksum(decoded) ==
    IF ~decoded.ok THEN decoded
    ELSE IF Len(decoded.val) < 4
    THEN Err([kind |-> "TooShort", len |-> Len(decoded.val)])
    ELSE IF Sha256dChecksum(SubSeq(decoded.val, 1, Len(decoded.val) - 4))
              # SubSeq(decoded.val, Len(decoded.val) - 3, Len(decoded.val))
    THEN Err([kind |-> "BadChecksum"])
    ELSE Ok(SubSeq(decoded.val, 1, Len(decoded.val) - 4))

\* FromBase58::from_base58check, up to the call of from_base58_layout
from_base58check(data) == VerifyChecksum(from_base58(data))

\* impl FromBase58 for Address: from_base58_layout
Address_from_base58_layout(data) ==
    IF Len(data) # 21 THEN Err([kind |-> "InvalidLength", len |-> Len(data)])
    ELSE LET hash == SubSeq(data, 2, 21)
         IN  CASE data[1] = 0 ->
                    Ok([network |-> "Bitcoin", ty |-> "PubkeyHash", hash |-> hash])
               [] data[1] = 5 ->
                    Ok([network |-> "Bitcoin", ty |-> "ScriptHash", hash |-> hash])
               [] data[1] = 111 ->
                    Ok([network |-> "Testnet", ty |-> "PubkeyHash", hash |-> hash])
               [] data[1] = 196 ->
                    Ok([network |-> "Testnet", ty |-> "ScriptHash", hash |-> hash])
               [] OTHER ->
                    Err([kind |-> "InvalidVersion", bytes |-> <<data[1]>>])

Address_from_base58check(s) ==
    LET r == from_base58check(s)
    IN  IF ~r.ok THEN r ELSE Address_from_base58_layout(r.val)

Contract_from_p2sh_base58_str_swapped_type(s, nonce, expected_network) ==
    LET addr == Address_from_base58check(s)
    IN  IF ~addr.ok THEN Err([kind |-> "Base58", inner |-> addr.err])
        ELSE IF addr.val.network # expected_network
        THEN Err([kind |-> "WrongNetwork", got |-> addr.val.network,
                  expected |-> expected_network])
        ELSE Ok([ty |-> CASE addr.val.ty = "PubkeyHash" -> "ScriptHash"
                          [] addr.val.ty = "ScriptHash" -> "PubkeyHash",
                 nonce |-> nonce,
                 data |-> addr.val.hash])

Contract_from_p2sh_base58_str(s, nonce, expected_network) ==
    LET addr == Address_from_base58check(s)
    IN  IF ~addr.ok THEN Err([kind |-> "Base58", inner |-> addr.err])
        ELSE IF addr.val.network # expected_network
        THEN Err([kind |-> "WrongNetwork", got |-> addr.val.network,
                  expected |-> expected_network])
        ELSE Ok([ty |-> CASE addr.val.ty = "PubkeyHash" -> "PubkeyHash"
                          [] addr.val.ty = "ScriptHash" -> "ScriptHash",
                 nonce |-> nonce,
                 data |-> addr.val.hash])

Contract_from_ascii_str_char_count(s, nonce) ==
    IF Len(s) # DATA_LEN
    THEN Err([kind |-> "BadLength", len |-> Len(s)])
    ELSE Ok([ty |-> "Text", nonce |-> nonce, data |-> as_bytes(s)])

Contract_from_ascii_str(s, nonce) ==
    LET bytes == as_bytes(s)
    IN  IF Len(bytes) # DATA_LEN
        THEN Err([kind |-> "BadLength", len |-> Len(bytes)])
        ELSE Ok([ty |-> "Text", nonce |-> nonce, data |-> bytes])

(***************************************************************************)
(* Inputs                                                                  *)
(***************************************************************************)
Seeds == 0 .. MaxSeed
PayloadIds == 0 .. MaxPayload
Networks == {"Bitcoin", "Testnet"}

\* What the random source (rng.gen()) may return
RandomNonce(k) == Bytes(k * 67, 11, 1, NONCE_LEN)

\* The text whose i-th character is the digit (i - 1 + k) mod 10, i = lo .. hi
Digits(k, lo, hi) ==
    [j \in 1 .. (hi - lo + 1) |-> 48 + ((lo + j - 2 + k) % 10)] \o <<>>

\* "01234567890123456789" for k = 0
Text(k) == Digits(k, 1, DATA_LEN)

\* ToHex of rustc_serialize (lower case), used to write a contract down
to_hex(bytes) ==
    [i \in 1 .. (2 * Len(bytes)) |->
       IF i % 2 = 1 THEN HEX_DIGITS[(bytes[(i + 1) \div 2] \div 16) + 1]
       ELSE HEX_DIGITS[(bytes[i \div 2] % 16) + 1]] \o <<>>

UpperCase(s) ==
    [i \in 1 .. Len(s) |-> IF s[i] >= 97 /\ s[i] <= 122 THEN s[i] - 32 ELSE s[i]] \o <<>>

\* The 4-byte tag the 40-byte layout gives each type
TagOf(ty) ==
    CASE ty = "Text" -> <<84, 69, 88, 84>>
      [] ty = "PubkeyHash" -> <<80, 50, 80, 72>>
      [] ty = "ScriptHash" -> <<80, 50, 83, 72>>

\* The 40-byte layout of a logical contract: tag, nonce, data
Layout(lc) == TagOf(lc.ty) \o lc.nonce \o lc.data

\* The address strings, with what each one encodes
AddressInputs ==
    { [s |-> "1eJbowaiFMK16mer2rrcT1YecZaWtjBAQ", network |-> "Bitcoin",
       ty |-> "PubkeyHash", hash |-> Payload(0)],
      [s |-> "14Urq7zbNv9o1rzh3ofnVQUwUx3Koep2Vt", network |-> "Bitcoin",
       ty |-> "PubkeyHash", hash |-> Payload(1)],
      [s |-> "32LKXMS2G9fh6GU5y8XT35NUo8rJ9xZAtT", network |-> "Bitcoin",
       ty |-> "ScriptHash", hash |-> Payload(0)],
      [s |-> "35AskfV2vpUB72h8AuLNv2qsdUL3PpCeXb", network |-> "Bitcoin",
       ty |-> "ScriptHash", hash |-> Payload(1)],
      [s |-> "mgAFts2ZXGnZnDFGZbqESNDsWcAHVZMVjM", network |-> "Testnet",
       ty |-> "PubkeyHash", hash |-> Payload(0)],
      [s |-> "2MyZe3iU5Cwn1KaYi3omBQwJXgA1xNJY2oN", network |-> "Testnet",
       ty |-> "ScriptHash", hash |-> Payload(2)],
      [s |-> "LKsFs2FQnubNFuTp2Ar9tU5JrpvrgsivEC", network |-> "None",
       ty |-> "None", hash |-> <<>>],
      [s |-> "19TC4PLRJJHmRsSnzy9yWugo8bxwUSdA", network |-> "None",
       ty |-> "None", hash |-> <<>>],
      [s |-> "1eJbowaiFMK16mer2rrcT1YecZaWtjBAR", network |-> "None",
       ty |-> "None", hash |-> <<>>],
      [s |-> "0OIl", network |-> "None", ty |-> "None", hash |-> <<>>],
      [s |-> "", network |-> "None", ty |-> "None", hash |-> <<>>],
      [s |-> "1111", network |-> "None", ty |-> "None", hash |-> <<>>],
      [s |-> "3QJmnh", network |-> "None", ty |-> "None", hash |-> <<>>] }

\* Texts for from_ascii_str: 20 digits, 19 and 21 digits, and texts holding
\* e-acute (two bytes in UTF-8): 19 characters in 20 bytes, 20 in 21 bytes
TextInputs ==
    { Text(k) : k \in PayloadIds }
    \cup { Digits(0, 1, DATA_LEN - 1), Digits(0, 1, DATA_LEN + 1), <<>>,
           Digits(0, 1, DATA_LEN - 2) \o <<233>>,
           Digits(0, 1, DATA_LEN - 1) \o <<233>> }

\* The logical contracts a 40-byte blob may hold
LogicalContracts ==
    { [ty |-> t, nonce |-> RandomNonce(k), data |-> d] :
        t \in Types, k \in Seeds,
        d \in { Payload(j) : j \in PayloadIds } \cup { as_bytes(Text(0)) } }

\* Hex strings for from_hex: well-formed blobs in lower and upper case and
\* with white space inside, and blobs that are too short, too long, of odd
\* length, with a character that is no hex digit, or with an unknown tag
HexInputs ==
    { to_hex(Layout(lc)) : lc \in LogicalContracts }
    \cup { UpperCase(to_hex(Layout(lc))) : lc \in LogicalContracts }
    \cup { to_hex(TagOf(lc.ty)) \o <<32, 10>> \o to_hex(lc.nonce \o lc.data) :
             lc \in LogicalContracts }
    \cup { to_hex(SubSeq(Layout(lc), 1, CONTRACT_LEN - 1)) : lc \in LogicalContracts }
    \cup { to_hex(Layout(lc) \o <<0>>) : lc \in LogicalContracts }
    \cup { Tail(to_hex(Layout(lc))) : lc \in LogicalContracts }
    \cup { <<120>> \o Tail(to_hex(Layout(lc))) : lc \in LogicalContracts }
    \cup { to_hex(tag \o lc.nonce \o lc.data) :
             tag \in { <<116, 101, 120, 116>>, <<80, 50, 80, 75>>, <<0, 0, 0, 0>> },
             lc \in LogicalContracts }
    \cup { <<>> }

\* 4-byte inputs for Type::deserialize: every word over the letters of the
\* three tags and two more bytes
TagAlphabet == {80, 50, 83, 72, 84, 69, 88, 116, 0}
TagInputs == { <<a, b, c, d>> : a \in TagAlphabet, b \in TagAlphabet,
                                c \in TagAlphabet, d \in TagAlphabet }

(***************************************************************************)
(* main() (main.rs 63-310): what it prints                                 *)
(***************************************************************************)
Line(msg) == [msg |-> msg]
LineWith(msg, arg) == [msg |-> msg, arg |-> arg]
\* println!("{}", full_usage)
USAGE == Line("full_usage")

\* The order of the secp256k1 group, big-endian
CURVE_ORDER ==
    <<255, 255, 255, 255, 255, 255, 255, 255, 255, 255, 255, 255, 255, 255, 255, 254,
      186, 174, 220, 230, 175, 72, 160, 59, 191, 210, 94, 140, 208, 54, 65, 65>>

\* SecretKey::from_slice: 32 bytes that read as a number from 1 to the
\* order of the group less one
SecretKey_from_slice(data) ==
    IF /\ Len(data) = 32
       /\ \E i \in 1 .. 32 : data[i] # 0
       /\ \E i \in 1 .. 32 : /\ data[i] < CURVE_ORDER[i]
                             /\ \A j \in 1 .. (i - 1) : data[j] = CURVE_ORDER[j]
    THEN Ok(data)
    ELSE Err([kind |-> "InvalidSecretKey"])

\* impl FromBase58 for Privkey: from_base58_layout
Privkey_from_base58_layout(data) ==
    IF Len(data) \notin {33, 34}
    THEN Err([kind |-> "InvalidLength", len |-> Len(data)])
    ELSE IF data[1] \notin {128, 239}
    THEN Err([kind |-> "InvalidVersion", bytes |-> <<data[1]>>])
    ELSE LET key == SecretKey_from_slice(SubSeq(data, 2, 33))
         IN  IF ~key.ok
             THEN Err([kind |-> "Other", msg |-> "Secret key out of range"])
             ELSE Ok([network |-> IF data[1] = 128 THEN "Bitcoin" ELSE "Testnet",
                      compressed |-> (Len(data) = 34),
                      key |-> key.val])

Privkey_from_base58check(s) ==
    LET r == from_base58check(s)
    IN  IF ~r.ok THEN r ELSE Privkey_from_base58_layout(r.val)

(***************************************************************************)
(* Mode selection (main.rs 102-115).  Flag c is declared as --gen-address  *)
(* and flag g as --gen-privkey (main.rs 70-71).                            *)
(***************************************************************************)
SelectMode_both_allowed(c, g) ==
    CASE ~c /\ ~g -> Err(<<Line("One of -g or -c must be specified."), USAGE>>)
      [] c /\ g -> Ok("GenAddress")
      [] c /\ ~g -> Ok("GenPrivkey")
      [] ~c /\ g -> Ok("GenAddress")

SelectMode(c, g) ==
    CASE ~c /\ ~g -> Err(<<Line("One of -g or -c must be specified."), USAGE>>)
      [] c /\ g -> Err(<<Line("At most one of -g or -c may be specified."), USAGE>>)
      [] c /\ ~g -> Ok("GenPrivkey")
      [] ~c /\ g -> Ok("GenAddress")

(***************************************************************************)
(* Redeem script (main.rs 118-139)                                         *)
(***************************************************************************)
ValidateRedeemScript(mode, r) ==
    CASE mode = "GenAddress" /\ r.some ->
           LET x == from_hex(r.val)
           IN  IF x.ok THEN Ok(Some(x.val))
               ELSE Err(<<LineWith("option to -r could not be parsed as hex: {}.", x.err)>>)
      [] mode = "GenAddress" /\ ~r.some ->
           Err(<<Line("-r must be specified in -g mode."), USAGE>>)
      [] mode = "GenPrivkey" /\ ~r.some -> Ok(None)
      [] mode = "GenPrivkey" /\ r.some ->
           Err(<<Line("-r may only be used in -g mode."), USAGE>>)

(***************************************************************************)
(* Private key (main.rs 142-170)                                           *)
(***************************************************************************)
ValidatePrivateKey(mode, p, network) ==
    CASE mode = "GenPrivkey" /\ p.some ->
           LET decode == Privkey_from_base58check(p.val)
           IN  IF decode.ok
               THEN IF decode.val.network # network
                    THEN Err(<<Line("Private key network did not match tool mode (did you forget -t?).")>>)
                    ELSE Ok(Some(decode.val))
               ELSE Err(<<LineWith("option to -p could not be parsed as a private key: {:?}.",
                                   decode.err)>>)
      [] mode = "GenPrivkey" /\ ~p.some ->
           Err(<<Line("-p must be specified in -c mode."), USAGE>>)
      [] mode = "GenAddress" /\ ~p.some -> Ok(None)
      [] mode = "GenAddress" /\ p.some ->
           Err(<<Line("-p may only be used in -c mode."), USAGE>>)

(***************************************************************************)
(* Contract resolution (main.rs 173-246)                                   *)
(***************************************************************************)
\* The arm of the match on (mode, f, n, d, a) that a combination takes
ContractArm_full_ignores_nonce(f, n, d, a) ==
    CASE f.some /\ ~d.some /\ ~a.some -> "full"
      [] ~f.some /\ d.some /\ ~a.some -> "p2sh"
      [] ~f.some /\ ~d.some /\ a.some -> "ascii"
      [] OTHER -> "illegal"

ContractArm_full_obviates_sources(f, n, d, a) ==
    CASE f.some /\ ~n.some -> "full"
      [] ~f.some /\ d.some /\ ~a.some -> "p2sh"
      [] ~f.some /\ ~d.some /\ a.some -> "ascii"
      [] OTHER -> "illegal"

ContractArm(f, n, d, a) ==
    CASE f.some /\ ~n.some /\ ~d.some /\ ~a.some -> "full"
      [] ~f.some /\ d.some /\ ~a.some -> "p2sh"
      [] ~f.some /\ ~d.some /\ a.some -> "ascii"
      [] OTHER -> "illegal"

\* The nonce of the -d and -a arms (main.rs 186-203 and 214-231): the one
\* given with -n, or in GenAddress mode one drawn from the random source.
\* flag names the source option in the message; rnd is what rng.gen() returns.
ResolveNonce_always_generates(mode, nonce, flag, rnd) ==
    IF nonce.some
    THEN LET r == Nonce_from_hex(nonce.val)
         IN  IF r.ok THEN Ok([nonce |-> r.val, drawn |-> FALSE])
             ELSE Err(<<LineWith("option to -n could not be parsed as a nonce: {:?}.", r.err)>>)
    ELSE Ok([nonce |-> rnd, drawn |-> TRUE])

ResolveNonce(mode, nonce, flag, rnd) ==
    IF mode = "GenPrivkey" /\ ~nonce.some
    THEN Err(<<LineWith("-n is required when using -c and {}", flag), USAGE>>)
    ELSE IF nonce.some
    THEN LET r == Nonce_from_hex(nonce.val)
         IN  IF r.ok THEN Ok([nonce |-> r.val, drawn |-> FALSE])
             ELSE Err(<<LineWith("option to -n could not be parsed as a nonce: {:?}.", r.err)>>)
    ELSE Ok([nonce |-> rnd, drawn |-> TRUE])

\* Ok([contract, drawn]) or Err(lines printed)
ResolveContract(mode, f, n, d, a, network, rnd) ==
    LET arm == ContractArm(f, n, d, a)
    IN  CASE arm = "full" ->
               LET r == Contract_from_hex(f.val)
               IN  IF r.ok THEN Ok([contract |-> r.val, drawn |-> FALSE])
                   ELSE Err(<<LineWith("option to -f could not be parsed as a contract: {:?}.",
                                       r.err)>>)
          [] arm = "p2sh" ->
               LET nr == ResolveNonce(mode, n, "-d", rnd)
               IN  IF ~nr.ok THEN nr
                   ELSE LET r == Contract_from_p2sh_base58_str(d.val, nr.val.nonce, network)
                        IN  IF r.ok THEN Ok([contract |-> r.val, drawn |-> nr.val.drawn])
                            ELSE Err(<<LineWith("option to -d could not be parsed as a P2SH contract: {:?}.",
                                                r.err)>>)
          [] arm = "ascii" ->
               LET nr == ResolveNonce(mode, n, "-a", rnd)
               IN  IF ~nr.ok THEN nr
                   ELSE LET r == Contract_from_ascii_str(a.val, nr.val.nonce)
                        IN  IF r.ok THEN Ok([contract |-> r.val, drawn |-> nr.val.drawn])
                            ELSE Err(<<LineWith("option to -a could not be parsed as a contract: {:?}.",
                                                r.err)>>)
          [] OTHER ->
               Err(<<Line("Must specify exactly one of: -f; -a -n; or -d -n"), USAGE>>)

(***************************************************************************)
(* The program proper (main.rs 250-309).  untemplate, tweak_keys,          *)
(* Template::to_script and tweak_secret_key belong to the bitcoin crate:   *)
(* each either fails or returns a value kept here as a record of what it   *)
(* was computed from.                                                      *)
(***************************************************************************)
NetworkLine(network) ==
    CASE network = "Bitcoin" -> Line("Using mainnet!")
      [] network = "Testnet" -> Line("Using testnet!")

GenAddressOutcomes == {"ok", "untemplate", "tweak_keys", "to_script"}
GenPrivkeyOutcomes == {"ok", "tweak_secret_key"}

\* The lines printed by the GenAddress arm (main.rs 252-284)
GenAddress(network, contract, redeem_script, outcome) ==
    CASE outcome = "untemplate" ->
           <<LineWith("Unable to extract keys from redemption script: {:?}", "error")>>
      [] outcome = "tweak_keys" ->
           <<LineWith("Unable to tweak keys: {:?}", "error")>>
      [] outcome = "to_script" ->
           <<LineWith("Unable to put tweaked keys back into the redemption script: {:?}", "error")>>
      [] outcome = "ok" ->
           LET new_script == [template |-> redeem_script,
                              tweak |-> Contract_serialize(contract)]
           IN  << NetworkLine(network),
                  LineWith("Nonce: {:x}", Nonce_LowerHex(Nonce_from_contract(contract))),
                  LineWith("Modified redeem script: {:x}", new_script),
                  LineWith("Modified redeem script as P2SH address: {}",
                           [network |-> network, script |-> new_script]) >>

\* The lines printed by the GenPrivkey arm (main.rs 285-308)
GenPrivkey(network, contract, private_key, outcome) ==
    CASE outcome = "tweak_secret_key" ->
           <<LineWith("Failed to tweak private key: {:?}", "error")>>
      [] outcome = "ok" ->
           LET tweaked_key == [key |-> private_key.key,
                               tweak |-> Contract_serialize(contract)]
               tweaked_privkey == [compressed |-> TRUE, network |-> network,
                                   key |-> tweaked_key]
           IN  << NetworkLine(network),
                  LineWith("New secret key: {}", tweaked_privkey) >>

(***************************************************************************)
(* State                                                                   *)
(***************************************************************************)
VARIABLES
    \* one run of main()
    env,            \* "ok", "no_rng" (OsRng::new() fails) or "bad_args" (opts.parse fails)
    matches,        \* the parsed options: flags c g h t, options r p d a f n
    pc,             \* where main() is: "start", "mode", "redeem", "privkey",
                    \* "contract", "gen_address", "gen_privkey", and at its end
                    \* "done" (ran to completion), "stopped" (printed a
                    \* diagnostic or the usage and returned), "panicked"
    step,           \* the last step of main() that ran
    network, mode, redeem_script, private_key, contract,
    drawn,          \* whether the contract's nonce was drawn from the random source
    out,            \* the lines printed so far
    \* calls of the contract module on their own
    lpc,            \* "idle", then what the last call produced
    op,             \* the constructor or function called first
    inp,            \* its arguments (and, for a constructor, the logical contract meant)
    res,            \* its result
    ser,            \* Contract::serialize of the constructed contract
    enc,            \* the hex encoding of ser
    back,           \* what decoding gives back
    alt             \* the serialization of the same logical contract built by from_hex

mainvars == <<env, matches, pc, step, network, mode, redeem_script, private_key,
              contract, drawn, out>>
libvars == <<lpc, op, inp, res, ser, enc, back, alt>>
vars == <<env, matches, pc, step, network, mode, redeem_script, private_key,
          contract, drawn, out, lpc, op, inp, res, ser, enc, back, alt>>

Unset == [unset |-> TRUE]

(***************************************************************************)
(* Command lines                                                           *)
(***************************************************************************)
OptionOf(S) == {None} \cup { Some(v) : v \in S }

\* -r: "51ae", and "zz" (no hex)
RedeemScriptInputs == { <<53, 49, 97, 101>>, <<122, 122>> }
\* -p: a mainnet key, a testnet key, a key with a wrong checksum
PrivateKeyInputs ==
    { "KwFfpDsaF7yxCELuyrH9gP5XL7TAt5b9HPWC1xCQbmrxvhJgMQHb",
      "cMcfH8sRgBgDMfpBNG6H3haaxLkaYXgqMRef8Nev6tWyBSNr6c3n",
      "KwFfpDsaF7yxCELuyrH9gP5XL7TAt5b9HPWC1xCQbmrxvhJgMQHc" }
\* -f: a well-formed contract, and one of 39 bytes
FullContractInputs ==
    { to_hex(Layout([ty |-> "ScriptHash", nonce |-> RandomNonce(1), data |-> Payload(1)])),
      to_hex(SubSeq(Layout([ty |-> "Text", nonce |-> RandomNonce(0), data |-> Payload(0)]),
                    1, CONTRACT_LEN - 1)) }
\* -n: the nonces the random source can return written in hex, and 15 bytes
NonceInputs ==
    { to_hex(RandomNonce(k)) : k \in Seeds }
    \cup { to_hex(SubSeq(RandomNonce(0), 1, NONCE_LEN - 1)) }
\* -d: a mainnet address, a testnet address, an address with a wrong checksum
P2shInputs ==
    { "1eJbowaiFMK16mer2rrcT1YecZaWtjBAQ", "2MyZe3iU5Cwn1KaYi3omBQwJXgA1xNJY2oN",
      "1eJbowaiFMK16mer2rrcT1YecZaWtjBAR" }
\* -a: "01234567890123456789", and 19 characters
AsciiInputs == { Text(0), Digits(0, 1, DATA_LEN - 1) }

Matches ==
    [ c : BOOLEAN, g : BOOLEAN, h : BOOLEAN, t : BOOLEAN,
      r : OptionOf(RedeemScriptInputs), p : OptionOf(PrivateKeyInputs),
      f : OptionOf(FullContractInputs), n : OptionOf(NonceInputs),
      d : OptionOf(P2shInputs), a : OptionOf(AsciiInputs) ]

NoMatches ==
    [ c |-> FALSE, g |-> FALSE, h |-> FALSE, t |-> FALSE,
      r |-> None, p |-> None, f |-> None, n |-> None, d |-> None, a |-> None ]

(***************************************************************************)
(* main(), step by step                                                    *)
(***************************************************************************)
LibIdle ==
    /\ lpc = "idle" /\ op = "none" /\ inp = Unset /\ res = Unset
    /\ ser = Unset /\ enc = Unset /\ back = Unset /\ alt = Unset

MainInit ==
    /\ \/ env = "ok" /\ matches \in Matches
       \/ env \in {"no_rng", "bad_args"} /\ matches = NoMatches
    /\ pc = "start" /\ step = "none"
    /\ network = Unset /\ mode = Unset /\ redeem_script = Unset
    /\ private_key = Unset /\ contract = Unset /\ drawn = FALSE
    /\ out = <<>>

Init == MainInit /\ LibIdle

\* main.rs 64-99: the random source, the options, -h, the network
MainParse ==
    /\ pc = "start"
    /\ step' = "parse"
    /\ IF env = "no_rng"
       THEN pc' = "panicked" /\ out' = out /\ network' = network
       ELSE IF env = "bad_args"
       THEN /\ pc' = "stopped"
            /\ out' = <<LineWith("Argument error: {}", "error"), USAGE>>
            /\ network' = network
       ELSE IF matches.h
       THEN pc' = "stopped" /\ out' = <<USAGE>> /\ network' = network
       ELSE /\ pc' = "mode" /\ out' = out
            /\ network' = IF matches.t THEN "Testnet" ELSE "Bitcoin"
    /\ UNCHANGED <<env, matches, mode, redeem_script, private_key, contract, drawn>>
    /\ UNCHANGED libvars

\* main.rs 102-115
MainMode ==
    /\ pc = "mode"
    /\ step' = "mode"
    /\ LET m == SelectMode(matches.c, matches.g)
       IN  IF m.ok
           THEN mode' = m.val /\ pc' = "redeem" /\ out' = out
           ELSE mode' = mode /\ pc' = "stopped" /\ out' = out \o m.err
    /\ UNCHANGED <<env, matches, network, redeem_script, private_key, contract, drawn>>
    /\ UNCHANGED libvars

\* main.rs 118-139
MainRedeemScript ==
    /\ pc = "redeem"
    /\ step' = "redeem"
    /\ LET v == ValidateRedeemScript(mode, matches.r)
       IN  IF v.ok
           THEN redeem_script' = v.val /\ pc' = "privkey" /\ out' = out
           ELSE redeem_script' = redeem_script /\ pc' = "stopped" /\ out' = out \o v.err
    /\ UNCHANGED <<env, matches, network, mode, private_key, contract, drawn>>
    /\ UNCHANGED libvars

\* main.rs 142-170
MainPrivateKey ==
    /\ pc = "privkey"
    /\ step' = "privkey"
    /\ LET v == ValidatePrivateKey(mode, matches.p, network)
       IN  IF v.ok
           THEN private_key' = v.val /\ pc' = "contract" /\ out' = out
           ELSE private_key' = private_key /\ pc' = "stopped" /\ out' = out \o v.err
    /\ UNCHANGED <<env, matches, network, mode, redeem_script, contract, drawn>>
    /\ UNCHANGED libvars

\* main.rs 173-246
MainContract ==
    /\ pc = "contract"
    /\ step' = "contract"
    /\ \E k \in Seeds :
         LET v == ResolveContract(mode, matches.f, matches.n, matches.d, matches.a,
                                  network, RandomNonce(k))
         IN  IF v.ok
             THEN /\ contract' = v.val.contract /\ drawn' = v.val.drawn
                  /\ pc' = (IF mode = "GenAddress" THEN "gen_address" ELSE "gen_privkey")
                  /\ out' = out
             ELSE /\ contract' = contract /\ drawn' = drawn
                  /\ pc' = "stopped" /\ out' = out \o v.err
    /\ UNCHANGED <<env, matches, network, mode, redeem_script, private_key>>
    /\ UNCHANGED libvars

\* main.rs 252-284
MainGenAddress ==
    /\ pc = "gen_address"
    /\ step' = "gen_address"
    /\ IF ~redeem_script.some
       THEN pc' = "panicked" /\ out' = out
       ELSE \E outcome \in GenAddressOutcomes :
              /\ out' = out \o GenAddress(network, contract, redeem_script.val, outcome)
              /\ pc' = (IF outcome = "ok" THEN "done" ELSE "stopped")
    /\ UNCHANGED <<env, matches, network, mode, redeem_script, private_key, contract, drawn>>
    /\ UNCHANGED libvars

\* main.rs 285-308
MainGenPrivkey ==
    /\ pc = "gen_privkey"
    /\ step' = "gen_privkey"
    /\ IF ~private_key.some
       THEN pc' = "panicked" /\ out' = out
       ELSE \E outcome \in GenPrivkeyOutcomes :
              /\ out' = out \o GenPrivkey(network, contract, private_key.val, outcome)
              /\ pc' = (IF outcome = "ok" THEN "done" ELSE "stopped")
    /\ UNCHANGED <<env, matches, network, mode, redeem_script, private_key, contract, drawn>>
    /\ UNCHANGED libvars

Next ==
    \/ MainParse
    \/ MainMode
    \/ MainRedeemScript
    \/ MainPrivateKey
    \/ MainContract
    \/ MainGenAddress
    \/ MainGenPrivkey

Spec == Init /\ [][Next]_vars

(***************************************************************************)
(* The contract module called on its own: one constructor or function is   *)
(* called on an input, and its result is then serialized, encoded and      *)
(* decoded again.                                                          *)
(***************************************************************************)
MainOff ==
    /\ env = "ok" /\ matches = NoMatches /\ pc = "off" /\ step = "none"
    /\ network = Unset /\ mode = Unset /\ redeem_script = Unset
    /\ private_key = Unset /\ contract = Unset /\ drawn = FALSE
    /\ out = <<>>

InitContract == MainOff /\ LibIdle

\* Contract::from_hex on a hex string
CallFromHex ==
    /\ lpc = "idle"
    /\ \E s \in HexInputs :
         /\ op' = "from_hex"
         /\ inp' = [s |-> s]
         /\ res' = Contract_from_hex(s)
    /\ lpc' = "built"
    /\ UNCHANGED <<ser, enc, back, alt>>
    /\ UNCHANGED mainvars

\* Contract::from_p2sh_base58_str on an address, a nonce and a network
CallFromP2sh ==
    /\ lpc = "idle"
    /\ \E a \in AddressInputs, k \in Seeds, net \in Networks :
         /\ op' = "from_p2sh_base58_str"
         /\ inp' = [s |-> a.s, nonce |-> RandomNonce(k), expected_network |-> net,
                    encodes |-> a]
         /\ res' = Contract_from_p2sh_base58_str(a.s, RandomNonce(k), net)
    /\ lpc' = "built"
    /\ UNCHANGED <<ser, enc, back, alt>>
    /\ UNCHANGED mainvars

\* Contract::from_ascii_str on a text and a nonce
CallFromAscii ==
    /\ lpc = "idle"
    /\ \E t \in TextInputs, k \in Seeds :
         /\ op' = "from_ascii_str"
         /\ inp' = [s |-> t, nonce |-> RandomNonce(k)]
         /\ res' = Contract_from_ascii_str(t, RandomNonce(k))
    /\ lpc' = "built"
    /\ UNCHANGED <<ser, enc, back, alt>>
    /\ UNCHANGED mainvars

\* Contract::serialize on the contract a constructor returned
CallSerialize ==
    /\ lpc = "built" /\ res.ok
    /\ ser' = Contract_serialize(res.val)
    /\ lpc' = "serialized"
    /\ UNCHANGED <<op, inp, res, enc, back, alt>>
    /\ UNCHANGED mainvars

\* The serialization written in hex and handed to Contract::from_hex
CallRoundTrip ==
    /\ lpc = "serialized"
    /\ enc' = to_hex(ser)
    /\ back' = Contract_from_hex(to_hex(ser))
    /\ lpc' = "decoded"
    /\ UNCHANGED <<op, inp, res, ser, alt>>
    /\ UNCHANGED mainvars

\* The logical contract (type, nonce, data) that the arguments of
\* from_p2sh_base58_str or from_ascii_str stand for
Logical(o, i) ==
    CASE o = "from_p2sh_base58_str" ->
           [ty |-> i.encodes.ty, nonce |-> i.nonce, data |-> i.encodes.hash]
      [] o = "from_ascii_str" ->
           [ty |-> "Text", nonce |-> i.nonce, data |-> as_bytes(i.s)]

\* The same logical contract laid out in 40 bytes, written in hex, built by
\* Contract::from_hex and serialized
CallViaHex ==
    /\ lpc = "serialized"
    /\ op \in {"from_p2sh_base58_str", "from_ascii_str"}
    /\ LET r == Contract_from_hex(to_hex(Layout(Logical(op, inp))))
       IN  alt' = IF r.ok THEN Ok(Contract_serialize(r.val)) ELSE r
    /\ lpc' = "compared"
    /\ UNCHANGED <<op, inp, res, ser, enc, back>>
    /\ UNCHANGED mainvars

\* Type::serialize on a type
CallTypeSerialize ==
    /\ lpc = "idle"
    /\ \E t \in Types :
         /\ op' = "Type::serialize"
         /\ inp' = [ty |-> t]
         /\ res' = Type_serialize(t)
    /\ lpc' = "tag"
    /\ UNCHANGED <<ser, enc, back, alt>>
    /\ UNCHANGED mainvars

\* Type::deserialize on the tag Type::serialize returned
CallTypeRoundTrip ==
    /\ lpc = "tag"
    /\ back' = Type_deserialize(res)
    /\ lpc' = "type_back"
    /\ UNCHANGED <<op, inp, res, ser, enc, alt>>
    /\ UNCHANGED mainvars

\* Type::deserialize on four bytes
CallTypeDeserialize ==
    /\ lpc = "idle"
    /\ \E b \in TagInputs :
         /\ op' = "Type::deserialize"
         /\ inp' = [data |-> b]
         /\ res' = Type_deserialize(b)
    /\ lpc' = "type"
    /\ UNCHANGED <<ser, enc, back, alt>>
    /\ UNCHANGED mainvars

NextContract ==
    \/ CallFromHex
    \/ CallFromP2sh
    \/ CallFromAscii
    \/ CallSerialize
    \/ CallRoundTrip
    \/ CallViaHex
    \/ CallTypeSerialize
    \/ CallTypeRoundTrip
    \/ CallTypeDeserialize

SpecContract == InitContract /\ [][NextContract]_vars

(***************************************************************************)
(* Properties of the contract module (checked under SpecContract)          *)
(***************************************************************************)

\* C2: a contract built by from_p2sh_base58_str (an address of type T with
\* hash D, nonce N, on the expected network) or by from_ascii_str (text D,
\* nonce N, T = Text) serializes to the same bytes as the contract that
\* from_hex builds from the hex of tag(T) ++ N ++ D.
C2_PathEquivalence ==
    lpc = "compared" => alt.ok /\ alt.val = ser

\* An address of type PubkeyHash was decoded, serialized, and compared with
\* the from_hex path
C2_Witness ==
    /\ lpc = "compared"
    /\ op = "from_p2sh_base58_str"
    /\ inp.encodes.ty = "PubkeyHash"
    /\ alt.ok

\* C3: for a contract c returned by any of the three constructors, from_hex
\* of the hex encoding of c.serialize() succeeds and returns a contract
\* equal to c in type, nonce and data.
C3_RoundTrip ==
    lpc = "decoded" =>
        /\ back.ok
        /\ back.val.ty = res.val.ty
        /\ back.val.nonce = res.val.nonce
        /\ back.val.data = res.val.data

\* A contract built from an address went through serialize, hex and from_hex
C3_Witness ==
    /\ lpc = "decoded"
    /\ op = "from_p2sh_base58_str"
    /\ back.ok

\* C4: every contract a constructor returns has exactly 20 bytes of data,
\* and its serialization is exactly 40 bytes: the 4-byte tag of its type,
\* then its 16 nonce bytes, then its 20 data bytes.
C4_CanonicalLength ==
    /\ (lpc \in {"built", "serialized", "decoded", "compared"} /\ res.ok) =>
           Len(res.val.data) = 20
    /\ lpc \in {"serialized", "decoded", "compared"} =>
           /\ Len(ser) = 40
           /\ SubSeq(ser, 1, 4) = TagOf(res.val.ty)
           /\ Len(res.val.nonce) = 16
           /\ SubSeq(ser, 5, 20) = res.val.nonce
           /\ SubSeq(ser, 21, 40) = res.val.data

\* A text of 19 characters and 20 bytes was accepted by from_ascii_str and
\* serialized
C4_Witness ==
    /\ lpc = "serialized"
    /\ op = "from_ascii_str"
    /\ Len(inp.s) = 19
    /\ Len(ser) = 40

\* C10: each type's tag is the one of the layout and no other type's,
\* Type::deserialize of a type's tag gives the type back, and
\* Type::deserialize of any 4 bytes other than "TEXT", "P2PH", "P2SH" fails
\* with BadType carrying exactly those bytes.
C10_TypeTagBijection ==
    /\ lpc = "tag" =>
           /\ res = TagOf(inp.ty)
           /\ \A t \in Types : t # inp.ty => res # TagOf(t)
    /\ lpc = "type_back" => back = Ok(inp.ty)
    /\ lpc = "type" =>
           IF inp.data = <<84, 69, 88, 84>> THEN res = Ok("Text")
           ELSE IF inp.data = <<80, 50, 80, 72>> THEN res = Ok("PubkeyHash")
           ELSE IF inp.data = <<80, 50, 83, 72>> THEN res = Ok("ScriptHash")
           ELSE res = Err([kind |-> "BadType", bytes |-> inp.data])

\* Type::deserialize was called on "P2SP", one byte away from a tag
C10_Witness ==
    /\ lpc = "type"
    /\ inp.data = <<80, 50, 83, 80>>
    /\ ~res.ok

(***************************************************************************)
(* Properties of main() (checked under Spec)                               *)
(***************************************************************************)
\* The run reached the validation of the options (main.rs 98)
Validating ==
    /\ pc \notin {"start", "off"}
    /\ ~(step = "parse" /\ pc \in {"stopped", "panicked"})

\* The run got past the validation, to the program proper (main.rs 248)
PastValidation ==
    pc \in {"gen_address", "gen_privkey"} \/ step \in {"gen_address", "gen_privkey"}

\* The contract step (main.rs 173-246) has run
ContractStepDone == step \in {"contract", "gen_address", "gen_privkey"}

\* How many of -f, -d, -a are given
SourceCount ==
    (IF matches.f.some THEN 1 ELSE 0) + (IF matches.d.some THEN 1 ELSE 0)
    + (IF matches.a.some THEN 1 ELSE 0)

\* A usage error: one message, then the usage
IsUsageError(o) == Len(o) = 2 /\ o[2] = USAGE /\ o[1] # USAGE

HasLine(o, msg) == \E j \in 1 .. Len(o) : o[j].msg = msg

\* C1: with --gen-address (flag c) as the one mode flag the run gets past
\* validation only if a redeem script is given and no private key; with
\* --gen-privkey (flag g) only if a private key is given and no redeem script.
C1_FlagInputs ==
    PastValidation =>
        /\ (matches.c /\ ~matches.g) => (matches.r.some /\ ~matches.p.some)
        /\ (matches.g /\ ~matches.c) => (matches.p.some /\ ~matches.r.some)

\* C5: with both mode flags or neither, the run stops at mode selection
\* with the usage error for that case, nothing else having been looked at;
\* the run is past mode selection only with exactly one of the two flags.
C5_ModeFlagExclusivity ==
    /\ (Validating /\ matches.c = matches.g) =>
           \/ pc = "mode"
           \/ /\ pc = "stopped" /\ step = "mode"
              /\ out = << Line(IF matches.c
                               THEN "At most one of -g or -c may be specified."
                               ELSE "One of -g or -c must be specified."),
                          USAGE >>
              /\ mode = Unset /\ redeem_script = Unset /\ private_key = Unset
              /\ contract = Unset /\ ~drawn
    /\ (Validating /\ ~(pc = "mode") /\ ~(pc = "stopped" /\ step = "mode")) =>
           matches.c # matches.g

\* Both flags given, with a redeem script that is no hex and two contract
\* sources: the run stopped at mode selection
C5_Witness ==
    /\ pc = "stopped" /\ step = "mode"
    /\ matches.c /\ matches.g
    /\ matches.r = Some(<<122, 122>>)
    /\ matches.f.some /\ matches.d.some

\* C6, as stated: with zero or more than one of -f, -d, -a the run stops with
\* a usage error and never reaches the program proper, and a contract is
\* resolved only with exactly one of the three.
C6_Original ==
    /\ (Validating /\ SourceCount # 1) =>
           /\ ~PastValidation /\ pc # "done" /\ pc # "panicked"
           /\ contract = Unset
           /\ pc = "stopped" => IsUsageError(out)
    /\ contract # Unset => SourceCount = 1

\* C6, amended: with zero or more than one of -f, -d, -a the run never
\* reaches the program proper and resolves no contract; it stops with the
\* usage error of the contract step if it gets that far, and otherwise with
\* the diagnostic of the earlier check that failed (which for an -r or -p
\* value that does not parse is not a usage error).  A contract is resolved
\* only with exactly one of the three.
C6_SourceExclusivity ==
    /\ (Validating /\ SourceCount # 1) =>
           /\ ~PastValidation /\ pc # "done" /\ pc # "panicked"
           /\ contract = Unset
           /\ (pc = "stopped" /\ step = "contract") =>
                  out = << Line("Must specify exactly one of: -f; -a -n; or -d -n"),
                           USAGE >>
           /\ (pc = "stopped" /\ step # "contract") =>
                  /\ step \in {"mode", "redeem", "privkey"}
                  /\ Len(out) >= 1
                  /\ ~HasLine(out, "Must specify exactly one of: -f; -a -n; or -d -n")
    /\ contract # Unset => SourceCount = 1

\* The contract step ran with both -f and -d and stopped the run
C6_Witness ==
    /\ pc = "stopped" /\ step = "contract"
    /\ matches.f.some /\ matches.d.some /\ ~matches.a.some

\* C7: with -d or -a as the one source and no -n, the contract step stops
\* with the missing-nonce usage error in GenPrivkey mode; in GenAddress mode
\* it draws a 16-byte nonce from the random source and the contract built
\* carries it, and giving that nonce with -n (as the program prints it)
\* builds the same contract.
C7_NoncePolicy ==
    (/\ ContractStepDone
     /\ ~matches.f.some /\ ~matches.n.some
     /\ matches.d.some # matches.a.some) =>
        /\ mode = "GenPrivkey" =>
               /\ pc = "stopped" /\ step = "contract" /\ contract = Unset
               /\ out = << LineWith("-n is required when using -c and {}",
                                    IF matches.d.some THEN "-d" ELSE "-a"),
                           USAGE >>
        /\ mode = "GenAddress" =>
               /\ ~HasLine(out, "-n is required when using -c and {}")
               /\ contract = Unset =>
                      /\ pc = "stopped" /\ step = "contract"
                      /\ out[1].msg = (IF matches.d.some
                                       THEN "option to -d could not be parsed as a P2SH contract: {:?}."
                                       ELSE "option to -a could not be parsed as a contract: {:?}.")
               /\ contract # Unset =>
                      /\ drawn
                      /\ Len(contract.nonce) = 16
                      /\ \E k \in Seeds : contract.nonce = RandomNonce(k)
                      /\ \A k \in Seeds :
                           ResolveContract(mode, matches.f,
                                           Some(Nonce_LowerHex(contract.nonce)),
                                           matches.d, matches.a, network,
                                           RandomNonce(k))
                           = Ok([contract |-> contract, drawn |-> FALSE])

\* GenAddress mode, -a alone without -n: a nonce was drawn and the contract built
C7_Witness ==
    /\ pc = "gen_address" /\ step = "contract"
    /\ matches.a.some /\ ~matches.d.some /\ ~matches.f.some /\ ~matches.n.some
    /\ drawn /\ contract # Unset

\* C8, as stated: with -f and -n (and neither -d nor -a) the nonce is ignored
\* and the contract step gives what it gives without -n: the contract held
\* in the hex blob.
C8_Original ==
    (/\ ContractStepDone
     /\ matches.f.some /\ matches.n.some /\ ~matches.d.some /\ ~matches.a.some
     /\ Contract_from_hex(matches.f.val).ok) =>
        contract = Contract_from_hex(matches.f.val).val

\* C8, amended: with -f and -n (and neither -d nor -a) the nonce is neither
\* validated nor consulted, and the contract step stops the run with the
\* usage error of the contract sources, resolving no contract, whatever the
\* nonce and the hex blob are.
C8_FullHexWithNonce ==
    (/\ ContractStepDone
     /\ matches.f.some /\ matches.n.some /\ ~matches.d.some /\ ~matches.a.some) =>
        /\ pc = "stopped" /\ step = "contract"
        /\ contract = Unset /\ ~drawn
        /\ out = << Line("Must specify exactly one of: -f; -a -n; or -d -n"), USAGE >>

\* The contract step ran with a well-formed -f and an -n of 15 bytes
C8_Witness ==
    /\ step = "contract"
    /\ matches.f.some /\ ~matches.d.some /\ ~matches.a.some
    /\ Contract_from_hex(matches.f.val).ok
    /\ matches.n.some /\ ~Nonce_from_hex(matches.n.val).ok

\* C9, as stated: every run that completes prints the network, the nonce of
\* the contract in hex and the result of its mode.
C9_Original ==
    pc = "done" =>
        /\ out[1] = NetworkLine(network)
        /\ \E j \in 1 .. Len(out) :
             /\ out[j].msg = "Nonce: {:x}"
             /\ out[j].arg = to_hex(contract.nonce)
        /\ \/ HasLine(out, "Modified redeem script: {:x}")
              /\ HasLine(out, "Modified redeem script as P2SH address: {}")
           \/ HasLine(out, "New secret key: {}")

\* C9, amended: a run that completes in GenAddress mode prints the network,
\* the nonce of the contract in hex (32 lower-case digits), the modified
\* redeem script and its address, in this order; one that completes in
\* GenPrivkey mode prints the network and the new private key and no nonce.
\* A nonce is drawn in GenAddress mode only, so a drawn nonce is printed by
\* every run that completes.
C9_Output ==
    pc = "done" =>
        /\ out[1] = NetworkLine(network)
        /\ mode = "GenAddress" =>
               /\ Len(out) = 4
               /\ out[2].msg = "Nonce: {:x}"
               /\ out[2].arg = to_hex(contract.nonce)
               /\ Len(out[2].arg) = 32
               /\ out[3].msg = "Modified redeem script: {:x}"
               /\ out[4].msg = "Modified redeem script as P2SH address: {}"
        /\ mode = "GenPrivkey" =>
               /\ Len(out) = 2
               /\ out[2].msg = "New secret key: {}"
               /\ ~drawn
        /\ drawn =>
               \E j \in 1 .. Len(out) :
                  out[j].msg = "Nonce: {:x}" /\ out[j].arg = to_hex(contract.nonce)

\* A run in GenAddress mode completed with a nonce it drew itself
C9_Witness ==
    /\ pc = "done" /\ mode = "GenAddress" /\ drawn
    /\ HasLine(out, "Nonce: {:x}")

====
